---- MODULE Spec2Model ----
(***************************************************************************)
(* The object store of package pdf (file.go): a File maps object numbers   *)
(* to slots (cross reference of an existing object, IndirectObject of a    *)
(* new object, freeObject of a newly freed object); Get, Add and Free work *)
(* on the map and Save appends a revision to the file on disk.             *)
(***************************************************************************)
EXTENDS Integers, Sequences, FiniteSets, TLC

VARIABLES
    disk,   \* the file on disk: length, object bodies by offset, revisions
    f,      \* the File value the caller holds
    last,   \* the last call: its arguments and what it returned
    ops,    \* number of Add and Free calls made so far
    saves,  \* number of Save calls made so far
    log,    \* the successful Add calls of a session of Add calls, in order
    res     \* what the last Open or Create holds: the file handle, the mapping

vars == <<disk, f, last, ops, saves, log, res>>

\* ---------------------------------------------------------------- bounds
MaxNum == 3     \* callers name object numbers 0..MaxNum
MaxGen == 1     \* callers name generation numbers 0..MaxGen
MaxOps == 2     \* Add and Free calls in one behaviour
MaxSaves == 2   \* Save calls in one behaviour
MaxLen == 8     \* files without an index have 0..MaxLen bytes
MaxSlot == 2    \* compressed entries record the slot indexes 0..MaxSlot

Nums == 0..MaxNum
Gens == 0..MaxGen

\* ---------------------------------------------------------------- objects
\* An Object value.  kind: "Plain" (a Dictionary, Array, Name ...), "Int"
\* (Integer val), "Stream".  A Stream has a dictionary whose Length entry is
\* absent (lkind "None"), an Integer (lkind "Int", lval its value) or an
\* ObjectReference (lkind "Ref", lval the object number); pay is the length
\* of its payload; os names the object stream it holds (0: none); xsize and
\* xprev are the Size and Prev entries of a cross reference stream.
Obj(kind, val, lkind, lval, pay, os, xsize, xprev) ==
    [kind |-> kind, val |-> val, lkind |-> lkind, lval |-> lval, pay |-> pay,
     os |-> os, xsize |-> xsize, xprev |-> xprev]

Plain(v) == Obj("Plain", v, "None", 0, 0, 0, 0, 0)
Integer(v) == Obj("Int", v, "None", 0, 0, 0, 0, 0)
StreamInt(len) == Obj("Stream", 0, "Int", len, len, 0, 0, 0)
StreamRef(n, pay) == Obj("Stream", 0, "Ref", n, pay, 0, 0, 0)
ObjectStream(id) == Obj("Stream", 0, "Int", 1, 1, id, 0, 0)
XRefStream(size, prev, pay) == Obj("Stream", 0, "None", 0, pay, 0, size, prev)

\* IndirectObject{ObjectReference{num, gen}, obj}
IndirectObject(num, gen, obj) == [num |-> num, gen |-> gen, obj |-> obj]

NoIndirect == IndirectObject(0, 0, Plain(0))

\* the values callers add
Values == {Plain(1), Integer(0), StreamRef(1, 1)}

\* ---------------------------------------------------------------- slots
\* f.objects[n] is a crossReference {type, field 1, field 2}, an
\* IndirectObject or a freeObject.
XrefSlot(x) == [tag |-> "xref", x |-> x, io |-> NoIndirect, free |-> 0]
PendingSlot(io) == [tag |-> "pending", x |-> <<0, 0, 0>>, io |-> io, free |-> 0]
FreedSlot(g) == [tag |-> "freed", x |-> <<0, 0, 0>>, io |-> NoIndirect, free |-> g]

Put(objects, n, slot) == [k \in DOMAIN objects \cup {n} |->
                              IF k = n THEN slot ELSE objects[k]]

SetMax(S) == IF S = {} THEN 0 ELSE CHOOSE m \in S : \A k \in S : k <= m

RECURSIVE SortedSeq(_)
SortedSeq(S) ==
    IF S = {} THEN <<>>
    ELSE LET least == CHOOSE n \in S : \A k \in S : n <= k
         IN  <<least>> \o SortedSeq(S \ {least})

\* "group into consecutive sets": the loop over the sorted object numbers at
\* position i (the first position is skipped), the group that is being
\* collected starting at groupStart; the remaining group is added last.
RECURSIVE GroupFrom(_, _, _)
GroupFrom(objects, groupStart, i) ==
    IF i > Len(objects) THEN << SubSeq(objects, groupStart, Len(objects)) >>
    ELSE IF objects[i] # objects[i - 1] + 1
      THEN << SubSeq(objects, groupStart, i - 1) >> \o GroupFrom(objects, i, i + 1)
    ELSE GroupFrom(objects, groupStart, i + 1)

\* Group with a group never closed at a gap
GroupAsOneRun(objects) == << objects >>

Group(objects) == GroupFrom(objects, 1, 2)

\* The Index array (and the subsection headers of a table): the first
\* object number and the length of every group.
Index(groups) == [k \in 1..Len(groups) |-> <<groups[k][1], Len(groups[k])>>]

\* ---------------------------------------------------------------- the file on disk
HeaderLen == 8       \* "%PDF-1.7"
MagicLen == 7        \* "%PDF-1."
LineBreakLen == 2    \* writeLineBreakTo writes two bytes
FreeHeadGen == 65535 \* generation of the entry of object 0

\* The file on disk: len is its length in bytes, head the number of its
\* leading bytes that are those of "%PDF-1." (at most 7, at most len).
\* A body is an IndirectObject written at byte offset at (at bytes precede
\* it).  A revision is an index: at is the offset its startxref names, xrefs
\* maps the object numbers of the index to crossReferences, size and prev
\* are the Size and Prev of its trailer (prev 0: no Prev), index lists the
\* runs of object numbers the entries are written for, as (first, count).
Body(at, io) == [at |-> at, io |-> io]
Revision(at, xrefs, size, prev) ==
    [at |-> at, xrefs |-> xrefs, size |-> size, prev |-> prev,
     index |-> Index(Group(SortedSeq(DOMAIN xrefs)))]

\* What Create leaves on disk: the header and nothing else.
HeaderOnly == [len |-> HeaderLen, head |-> MagicLen, bodies |-> {}, revs |-> <<>>]

\* The object streams found in existing files, by the id an ObjectStream
\* value carries: the N and First entries of the dictionary, the numerals
\* at the start of the decoded payload, the objects of the payload by the
\* offset they start at, and the length of the decoded payload.
ObjStmOf(N, First, numerals, at, len) ==
    [hasN |-> TRUE, N |-> N, hasFirst |-> TRUE, First |-> First, decodes |-> TRUE,
     numerals |-> numerals, at |-> at, len |-> len]

ObjStm(id) ==
    CASE id = 2 -> ObjStmOf(2, 8, <<1, 0, 3, 2>>,
                            [o \in {8, 10} |-> IF o = 8 THEN Plain(11) ELSE Plain(13)], 12)
      [] id = 3 -> ObjStmOf(2, 8, <<3, 0, 1, 2>>,
                            [o \in {8, 10} |-> IF o = 8 THEN Plain(13) ELSE Plain(11)], 12)
      [] id = 4 -> ObjStmOf(3, 12, <<5, 0, 1, 2, 3, 4>>,
                            [o \in {12, 14, 16} |->
                                IF o = 12 THEN Plain(15)
                                ELSE IF o = 14 THEN Plain(11) ELSE Plain(13)], 18)
      [] OTHER -> ObjStmOf(1, 4, <<3, 0>>, [o \in {4} |-> Plain(2)], 8)

\* An existing file with one revision: object 1 is free at generation 1,
\* object 2 is an object stream holding object 3, object 4 is the cross
\* reference stream.
ExistingFile ==
    [len |-> 30, head |-> MagicLen,
     bodies |-> {Body(10, IndirectObject(2, 0, ObjectStream(1))),
                 Body(20, IndirectObject(4, 0, XRefStream(5, 0, 5)))},
     revs |-> << Revision(20,
                    [n \in 0..4 |->
                        CASE n = 0 -> <<0, 1, FreeHeadGen>>
                          [] n = 1 -> <<0, 0, 1>>
                          [] n = 2 -> <<1, 10, 0>>
                          [] n = 3 -> <<2, 2, 0>>
                          [] n = 4 -> <<1, 20, 0>>],
                    5, 0) >>]

\* An existing file whose object 2 is the object stream id and whose
\* objects 1 and 3 are held in it, recorded at the slot indexes s1 and s3.
HealFile(id, s1, s3) ==
    [len |-> 30, head |-> MagicLen,
     bodies |-> {Body(10, IndirectObject(2, 0, ObjectStream(id))),
                 Body(20, IndirectObject(4, 0, XRefStream(5, 0, 5)))},
     revs |-> << Revision(20,
                    [n \in 0..4 |->
                        CASE n = 0 -> <<0, 0, FreeHeadGen>>
                          [] n = 1 -> <<2, 2, s1>>
                          [] n = 2 -> <<1, 10, 0>>
                          [] n = 3 -> <<2, 2, s3>>
                          [] n = 4 -> <<1, 20, 0>>],
                    5, 0) >>]

HealFiles == {HealFile(id, s1, s3) : id \in 2..4, s1 \in 0..MaxSlot, s3 \in 0..MaxSlot}

\* The files that hold no index: len bytes, the first head of them those of
\* the header.
HeaderFiles ==
    {[len |-> p[1], head |-> p[2], bodies |-> {}, revs |-> <<>>] :
        p \in {q \in (0..MaxLen) \X (0..MagicLen) : q[2] <= q[1]}}

\* The codec: the number of bytes writeTo writes for an IndirectObject.
EncodedLen(io) ==
    6 + io.obj.pay + (IF io.obj.kind = "Int" THEN 0 ELSE 2) + io.gen

RECURSIVE Digits(_)
Digits(n) == IF n < 10 THEN 1 ELSE 1 + Digits(n \div 10)

\* "\nstartxref\n%d\n%%EOF"
FooterLen(offset) == 17 + Digits(offset)

\* The codec: parseIndirectObject on the bytes from offset on.  The byte at
\* offset is the white space before a body, the body starts right after it.
ParseIndirectObject(bodies, offset) ==
    LET found == {b \in bodies : b.at = offset + 1}
    IN  IF found = {} THEN [ok |-> FALSE, io |-> NoIndirect]
        ELSE [ok |-> TRUE, io |-> (CHOOSE b \in found : TRUE).io]

\* ---------------------------------------------------------------- Get
\* What a call of Get comes to: st "ok" (obj is the Object returned),
\* "null" (Null is returned, diag its diagnostic), "panic" (Get panics) or
\* "overflow" (the recursion never ends, the goroutine stack overflows);
\* objects is the map as the call leaves it.
GetOk(obj, objects) ==
    [st |-> "ok", obj |-> obj, diag |-> "", objects |-> objects]
GetNull(diag, objects) ==
    [st |-> "null", obj |-> Plain(0), diag |-> diag, objects |-> objects]
GetPanic(objects) ==
    [st |-> "panic", obj |-> Plain(0), diag |-> "", objects |-> objects]
GetOverflow(objects) ==
    [st |-> "overflow", obj |-> Plain(0), diag |-> "", objects |-> objects]

Aborted(r) == r.st \in {"panic", "overflow"}

\* The index of an object stream: the first 2N numerals of its payload.
StreamIndex(os) == SubSeq(os.numerals, 1, 2 * os.N)

\* The offset the full scan finds for object number n: that of the first
\* pair naming n, else the offset found at the recorded slot.
ScanIndex(index, n, offset) ==
    LET hits == {i \in 1..(Len(index) \div 2) : index[2 * i - 1] = n}
    IN  IF hits = {} THEN offset
        ELSE index[2 * (CHOOSE i \in hits : \A j \in hits : i <= j)]

\* An object held in an object stream (the case 2 of Get, after the
\* container was fetched): x is the crossReference of object n.
GetCompressed(container, x, n, objects) ==
    LET os == ObjStm(container.os)
        index == StreamIndex(os)
        start == x[3] * 2
        offset == IF index[start + 1] # n
                    THEN ScanIndex(index, n, index[start + 2])
                    ELSE index[start + 2]
    IN  IF container.os = 0 \/ ~os.hasN THEN GetPanic(objects)
        ELSE IF ~os.decodes THEN GetNull("could not decode", objects)
        ELSE IF Len(os.numerals) < 2 * os.N
            THEN GetNull("unable to parse numeric", objects)
        ELSE IF start >= Len(index) THEN GetPanic(objects)
        ELSE IF ~os.hasFirst THEN GetPanic(objects)
        ELSE IF os.First + offset > os.len THEN GetPanic(objects)
        ELSE IF os.First + offset \notin DOMAIN os.at
            THEN GetNull("unable to parse object", objects)
        ELSE GetOk(os.at[os.First + offset], objects)

\* The fuel of Get bounds the depth of its recursion: a call path that is
\* longer than the number of objects names an object twice and never ends.
RECURSIVE Get(_, _, _, _)

\* "deal with streams that have refs to lengths": object is what the slot of
\* n resolved to; shared tells that its dictionary is the one of the
\* IndirectObject stored in the slot.
ResolveLength(objects, bodies, n, object, shared, fuel) ==
    IF object.kind = "Stream" /\ object.lkind = "Ref"
    THEN LET r == Get(objects, bodies, object.lval, fuel - 1)
             length == r.obj.val
             written == [object EXCEPT !.lkind = "Int", !.lval = length]
             stored == IF shared
                         THEN Put(r.objects, n,
                                  PendingSlot([r.objects[n].io EXCEPT !.obj = written]))
                         ELSE r.objects
         IN  IF Aborted(r) THEN r
             ELSE IF r.st = "null" \/ r.obj.kind # "Int" THEN GetPanic(r.objects)
             ELSE IF length > object.pay THEN GetPanic(stored)
             ELSE GetOk([written EXCEPT !.pay = length], stored)
    ELSE GetOk(object, objects)

Get(objects, bodies, n, fuel) ==
    IF fuel = 0 THEN GetOverflow(objects)
    ELSE IF n \notin DOMAIN objects THEN GetNull("not found", objects)
    ELSE LET slot == objects[n] IN
      CASE slot.tag = "xref" /\ slot.x[1] = 0 ->
             GetNull("is a free object", objects)
        [] slot.tag = "xref" /\ slot.x[1] = 1 ->
             IF slot.x[2] = 0 THEN GetPanic(objects)
             ELSE LET p == ParseIndirectObject(bodies, slot.x[2] - 1)
                  IN  IF ~p.ok THEN GetNull("Error parsing", objects)
                      ELSE ResolveLength(objects, bodies, n, p.io.obj, FALSE, fuel)
        [] slot.tag = "xref" /\ slot.x[1] = 2 ->
             LET c == Get(objects, bodies, slot.x[2], fuel - 1)
                 r == GetCompressed(c.obj, slot.x, n, c.objects)
             IN  IF Aborted(c) THEN c
                 ELSE IF c.st = "null" \/ c.obj.kind # "Stream"
                     THEN GetNull("is not a stream", c.objects)
                 ELSE IF r.st # "ok" THEN r
                 ELSE ResolveLength(r.objects, bodies, n, r.obj, FALSE, fuel)
        [] slot.tag = "xref" /\ slot.x[1] > 2 -> GetPanic(objects)
        [] slot.tag = "pending" ->
             ResolveLength(objects, bodies, n, slot.io.obj, TRUE, fuel)
        [] slot.tag = "freed" ->
             GetNull("freed after pdf was loaded", objects)

Fuel(objects) == Cardinality(DOMAIN objects) + 1

\* ---------------------------------------------------------------- the File
File(created, objects, size, prev, mmlen) ==
    [open |-> TRUE, created |-> created, objects |-> objects, size |-> size,
     prev |-> prev, mmlen |-> mmlen]

NoFile == [open |-> FALSE, created |-> FALSE, objects |-> <<>>, size |-> 0,
           prev |-> 0, mmlen |-> 0]

\* the bytes the File has mapped: the file as it was when it was opened
Mmap == {b \in disk.bodies : b.at < f.mmlen}

\* A call: op with the arguments n, g, obj; st is how it ended, rn, rg, robj
\* what it returned, diag the diagnostic of a Null that Get returned, or
\* the I/O step that failed in Save ("": none).
Call(op, n, g, obj, st, rn, rg, robj, diag) ==
    [op |-> op, n |-> n, g |-> g, obj |-> obj, st |-> st, rn |-> rn, rg |-> rg,
     robj |-> robj, diag |-> diag]

\* The log follows one session: phase "adding" while every call since Create
\* or Open was a successful Add (adds lists the references returned, each
\* with the Object last added under it), "saved" once Save has followed them, "reopened" once the saved file
\* was opened again, "off" when any other call came between.
Log(phase, adds) == [phase |-> phase, adds |-> adds]
Added(rn, rg, obj) == [rn |-> rn, rg |-> rg, obj |-> obj]
LogOff == Log("off", <<>>)

LogAdd(l, ok, rn, rg, obj) ==
    IF ~ok THEN LogOff
    ELSE IF l.phase = "adding"
      THEN Log("adding",
               Append(SelectSeq(l.adds, LAMBDA a : ~(a.rn = rn /\ a.rg = rg)),
                      Added(rn, rg, obj)))
    ELSE IF l.phase = "reopened" THEN Log("adding", <<Added(rn, rg, obj)>>)
    ELSE LogOff

\* ---------------------------------------------------------------- Open, Create
\* The index an opened file is loaded from: the entries of the revision at
\* offset at, and behind them those of the revisions its Prev chain names.
RECURSIVE LoadChain(_, _, _)
LoadChain(revs, at, fuel) ==
    LET here == {i \in 1..Len(revs) : revs[i].at = at}
        rev == revs[CHOOSE i \in here : TRUE]
        older == IF rev.prev = 0 THEN [ok |-> TRUE, xrefs |-> <<>>]
                 ELSE LoadChain(revs, rev.prev, fuel - 1)
    IN  IF fuel = 0 \/ here = {} THEN [ok |-> FALSE, xrefs |-> <<>>]
        ELSE IF ~older.ok THEN older
        ELSE [ok |-> TRUE,
              xrefs |-> [n \in DOMAIN rev.xrefs \cup DOMAIN older.xrefs |->
                            IF n \in DOMAIN rev.xrefs THEN rev.xrefs[n]
                            ELSE older.xrefs[n]]]

\* loadReferences: the index chain from the last startxref of the file.
LoadReferences(d) ==
    IF d.revs = <<>> THEN [ok |-> FALSE, xrefs |-> <<>>]
    ELSE LoadChain(d.revs, d.revs[Len(d.revs)].at, Len(d.revs))

Opened(d) ==
    LET loaded == LoadReferences(d)
        newest == d.revs[Len(d.revs)]
    IN  File(FALSE, [n \in DOMAIN loaded.xrefs |-> XrefSlot(loaded.xrefs[n])],
             newest.size, newest.at, d.len)

\* What Open comes to on the file d: "error" when mapping fails (an empty
\* file cannot be mapped), "panic" when the slice of the first 7 bytes is
\* out of the range of the mapping, "error" when these are not the header
\* or the index does not load, else "ok".
OpenStatus(d) ==
    IF d.len = 0 THEN "error"
    ELSE IF d.len < MagicLen THEN "panic"
    ELSE IF d.head # MagicLen THEN "error"
    ELSE IF ~LoadReferences(d).ok THEN "error"
    ELSE "ok"

\* The file handle and the mapping a File holds.
Resources(handle, mapped) == [handle |-> handle, mapped |-> mapped]

\* The steps of Open that acquire and the steps of Close that release, as
\* the operating system can fail them ("none": it does not).
Acquires == {"none", "open", "map"}
Releases == {"none", "unmap", "close"}

\* Close of a File holding r, the step release failing: a created File
\* holds nothing; an error of Unmap is returned before the file is closed.
CloseFile(created, r, release) ==
    IF created THEN [err |-> FALSE, res |-> r]
    ELSE IF release = "unmap" THEN [err |-> TRUE, res |-> r]
    ELSE [err |-> release = "close", res |-> Resources(FALSE, FALSE)]

\* What Open leaves held on the file d, the step acquire and the step
\* release of the Close of its error paths failing.
OpenHolds(d, acquire, release) ==
    IF acquire = "open" THEN Resources(FALSE, FALSE)
    ELSE IF acquire = "map" \/ d.len = 0
      THEN CloseFile(FALSE, Resources(TRUE, FALSE), release).res
    ELSE IF OpenStatus(d) = "error"
      THEN CloseFile(FALSE, Resources(TRUE, TRUE), release).res
    ELSE Resources(TRUE, TRUE)

\* Open, a step of acquires and a step of releases failing.
OpenWith(acquires, releases) ==
    \E acquire \in acquires, release \in releases :
        LET st == IF acquire = "none" THEN OpenStatus(disk) ELSE "error"
        IN  /\ st \in {"ok", "panic"} => release = "none"
            /\ acquire = "open" => release = "none"
            /\ f' = IF st = "ok" THEN Opened(disk) ELSE NoFile
            /\ last' = Call("Open", 0, 0, Plain(0), st, 0, 0, Plain(0),
                            IF acquire # "none" THEN acquire
                            ELSE IF release # "none" THEN release ELSE "")
            /\ log' = IF st # "ok" THEN LogOff
                      ELSE IF log.phase = "saved" THEN Log("reopened", log.adds)
                      ELSE Log("adding", <<>>)
            /\ res' = OpenHolds(disk, acquire, release)
            /\ UNCHANGED <<disk, ops, saves>>

\* Open on an operating system that does not fail.
OpenCall == OpenWith({"none"}, {"none"})

\* Open is called on a file that is not open, or to reopen a saved one.
Open ==
    /\ ~f.open \/ last.op = "Save"
    /\ OpenCall

Created == File(TRUE, <<>>, 1, 0, 0)

Create ==
    /\ ~f.open
    /\ last.op = "none"
    /\ f' = Created
    /\ disk' = HeaderOnly
    /\ last' = Call("Create", 0, 0, Plain(0), "ok", 0, 0, Plain(0), "")
    /\ log' = Log("adding", <<>>)
    /\ res' = Resources(FALSE, FALSE)
    /\ UNCHANGED <<ops, saves>>

\* ---------------------------------------------------------------- Add
\* MinGenerationNumber with the generation of a new object taken as 0
MinGenerationNumberNewAsZero(slot) ==
    CASE slot.tag = "xref" /\ slot.x[1] = 0 -> slot.x[3]
      [] slot.tag = "xref" /\ slot.x[1] = 1 -> slot.x[3]
      [] slot.tag = "xref" /\ slot.x[1] = 2 -> 0
      [] slot.tag = "pending" -> 0
      [] slot.tag = "freed" -> slot.free

\* "determine the minimum allowed generation number"
MinGenerationNumber(slot) ==
    CASE slot.tag = "xref" /\ slot.x[1] = 0 -> slot.x[3]
      [] slot.tag = "xref" /\ slot.x[1] = 1 -> slot.x[3]
      [] slot.tag = "xref" /\ slot.x[1] = 2 -> 0
      [] slot.tag = "pending" -> slot.io.gen
      [] slot.tag = "freed" -> slot.free

\* AddIndirect with the object stored before the generation is checked
AddIndirectStoresFirst(objects, io) ==
    IF io.num \in DOMAIN objects /\ io.gen < MinGenerationNumber(objects[io.num])
    THEN [err |-> TRUE, rn |-> io.num,
          rg |-> MinGenerationNumber(objects[io.num]),
          objects |-> Put(objects, io.num, PendingSlot(io))]
    ELSE [err |-> FALSE, rn |-> io.num, rg |-> io.gen,
          objects |-> Put(objects, io.num, PendingSlot(io))]

\* Add of an IndirectObject: the error, the reference returned and the map.
AddIndirect(objects, io) ==
    IF io.num \in DOMAIN objects /\ io.gen < MinGenerationNumber(objects[io.num])
    THEN [err |-> TRUE, rn |-> io.num,
          rg |-> MinGenerationNumber(objects[io.num]), objects |-> objects]
    ELSE [err |-> FALSE, rn |-> io.num, rg |-> io.gen,
          objects |-> Put(objects, io.num, PendingSlot(io))]

\* Add of any other Object: the next object number is taken from size.
AddOther(file, obj) ==
    [file EXCEPT !.size = file.size + 1,
                 !.objects = Put(file.objects, file.size,
                                 PendingSlot(IndirectObject(file.size, 0, obj)))]

AddCall(n, g, obj) ==
    LET r == AddIndirect(f.objects, IndirectObject(n, g, obj))
    IN  /\ f.open
        /\ f' = [f EXCEPT !.objects = r.objects]
        /\ last' = Call("Add", n, g, obj, IF r.err THEN "error" ELSE "ok",
                        r.rn, r.rg, Plain(0), "")
        /\ log' = LogAdd(log, ~r.err, r.rn, r.rg, obj)
        /\ ops' = ops + 1
        /\ UNCHANGED <<disk, saves, res>>

AddIndirectObject(n, g, obj) == ops < MaxOps /\ AddCall(n, g, obj)

AddObject(obj) ==
    /\ f.open
    /\ ops < MaxOps
    /\ f' = AddOther(f, obj)
    /\ last' = Call("AddOther", f.size, 0, obj, "ok", f.size, 0, Plain(0), "")
    /\ log' = LogAdd(log, TRUE, f.size, 0, obj)
    /\ ops' = ops + 1
    /\ UNCHANGED <<disk, saves, res>>

\* ---------------------------------------------------------------- Free
\* FreeObject with a freed object freed once more
FreeObjectAgain(objects, n) ==
    IF n \notin DOMAIN objects THEN objects
    ELSE LET slot == objects[n] IN
      CASE slot.tag = "xref" /\ slot.x[1] = 0 -> objects
        [] slot.tag = "xref" /\ slot.x[1] = 1 -> Put(objects, n, FreedSlot(slot.x[3] + 1))
        [] slot.tag = "xref" /\ slot.x[1] = 2 -> Put(objects, n, FreedSlot(1))
        [] slot.tag = "pending" -> Put(objects, n, FreedSlot(slot.io.gen + 1))
        [] slot.tag = "freed" -> Put(objects, n, FreedSlot(slot.free + 1))

FreeObject(objects, n) ==
    IF n \notin DOMAIN objects THEN objects
    ELSE LET slot == objects[n] IN
      CASE slot.tag = "xref" /\ slot.x[1] = 0 -> objects
        [] slot.tag = "xref" /\ slot.x[1] = 1 -> Put(objects, n, FreedSlot(slot.x[3] + 1))
        [] slot.tag = "xref" /\ slot.x[1] = 2 -> Put(objects, n, FreedSlot(1))
        [] slot.tag = "pending" -> Put(objects, n, FreedSlot(slot.io.gen + 1))
        [] slot.tag = "freed" -> objects

FreeCall(n) ==
    /\ f.open
    /\ f' = [f EXCEPT !.objects = FreeObject(f.objects, n)]
    /\ last' = Call("Free", n, 0, Plain(0), "ok", 0, 0, Plain(0), "")
    /\ log' = LogOff
    /\ ops' = ops + 1
    /\ UNCHANGED <<disk, saves, res>>

Free(n) == ops < MaxOps /\ FreeCall(n)

\* ---------------------------------------------------------------- Get (the call)
GetObject(n) ==
    LET r == Get(f.objects, Mmap, n, Fuel(f.objects))
    IN  /\ f.open
        /\ f' = IF r.st = "overflow" THEN NoFile ELSE [f EXCEPT !.objects = r.objects]
        /\ last' = Call("Get", n, 0, Plain(0), r.st, 0, 0, r.obj, r.diag)
        /\ log' = LogOff
        /\ UNCHANGED <<disk, ops, saves, res>>

\* ---------------------------------------------------------------- Save
\* The orders a range over the map can visit the object numbers S in.
RECURSIVE Orders(_)
Orders(S) ==
    IF S = {} THEN {<<>>}
    ELSE UNION {{<<n>> \o rest : rest \in Orders(S \ {n})} : n \in S}

PendingNumbers(objects) == {n \in DOMAIN objects : objects[n].tag = "pending"}
FreedNumbers(objects) == {n \in DOMAIN objects : objects[n].tag = "freed"}
FreeEntryNumbers(objects) ==
    {n \in DOMAIN objects : objects[n].tag = "xref" /\ objects[n].x[1] = 0}

\* The value of offset when the k-th object of order is written: start, and
\* after every object written before it its bytes and a line break.
RECURSIVE OffsetAt(_, _, _, _)
OffsetAt(objects, order, k, start) ==
    IF k = 1 THEN start
    ELSE OffsetAt(objects, order, k - 1, start)
           + EncodedLen(objects[order[k - 1]].io) + LineBreakLen

\* The number of bytes of the file when the k-th object of order is
\* written: those it had, the separator, and every object written before
\* with its line break.
RECURSIVE WrittenAt(_, _, _, _)
WrittenAt(objects, order, k, len) ==
    IF k = 1 THEN len + LineBreakLen
    ELSE WrittenAt(objects, order, k - 1, len)
           + EncodedLen(objects[order[k - 1]].io) + LineBreakLen

\* LoopXrefs with the freed objects left out of xrefs
LoopXrefsNoFreed(objects, order, start) ==
    [n \in {0} \cup PendingNumbers(objects) |->
        IF n \in PendingNumbers(objects)
          THEN LET k == CHOOSE i \in 1..Len(order) : order[i] = n
               IN  <<1, OffsetAt(objects, order, k, start) - 1, objects[n].io.gen>>
        ELSE <<0, 0, FreeHeadGen>>]

\* The entries the loop over f.objects puts into xrefs, on top of the entry
\* of object 0 that is there before the loop.
LoopXrefs(objects, order, start) ==
    [n \in {0} \cup PendingNumbers(objects) \cup FreedNumbers(objects) |->
        IF n \in PendingNumbers(objects)
          THEN LET k == CHOOSE i \in 1..Len(order) : order[i] = n
               IN  <<1, OffsetAt(objects, order, k, start) - 1, objects[n].io.gen>>
        ELSE IF n \in FreedNumbers(objects) THEN <<0, 0, objects[n].free>>
        ELSE <<0, 0, FreeHeadGen>>]

\* free of saveUsingXrefStream: 0, then every free entry and freed object
\* of the map, sorted.
FreeList(objects) ==
    LET found == FreeEntryNumbers(objects) \cup FreedNumbers(objects)
    IN  IF 0 \in found THEN <<0, 0>> \o SortedSeq(found \ {0})
        ELSE <<0>> \o SortedSeq(found)

\* free of saveUsingXrefTable: every free entry and freed object of the
\* map, sorted.
TableFreeList(objects) ==
    SortedSeq(FreeEntryNumbers(objects) \cup FreedNumbers(objects))

\* "fill in the free linked list": a number that has no entry in xrefs
\* reads as the zero crossReference.
RECURSIVE LinkFree(_, _, _)
LinkFree(xrefs, free, i) ==
    IF i >= Len(free) THEN xrefs
    ELSE LET old == IF free[i] \in DOMAIN xrefs THEN xrefs[free[i]] ELSE <<0, 0, 0>>
         IN  LinkFree(Put(xrefs, free[i], <<old[1], free[i + 1], old[3]>>), free, i + 1)

\* The I/O steps of Save that can fail: the stat, the open for append, the
\* write of the first separator, the write of a body (that of the last
\* object written), the write of the index and trailer, the write of the
\* startxref footer.
Fails == {"none", "stat", "open", "separator", "body", "index", "footer"}

\* TrailerSize with the highest object number itself
TrailerSizeAsMax(maxObjNum) == maxObjNum

\* trailer[Name("Size")] = Integer(maxObjNum + 1)
TrailerSize(maxObjNum) == maxObjNum + 1

\* saveUsingXrefStream with the map visited in order and the I/O step fail
\* failing ("none": every step succeeds): the error returned, the File and
\* the file on disk it leaves, and what it wrote (the bodies, the index and
\* trailer).  A write that fails writes nothing.
SaveUsingXrefStream(file, d, order, fail) ==
    LET objects == file.objects
        start == d.len + 1 + LineBreakLen
        wrote == IF fail = "body" THEN Len(order) - 1 ELSE Len(order)
        offset == OffsetAt(objects, order, Len(order) + 1, start)
        end == WrittenAt(objects, order, Len(order) + 1, d.len)
        bodies == {Body(WrittenAt(objects, order, k, d.len), objects[order[k]].io)
                      : k \in 1..wrote}
        maxObjNum == SetMax(DOMAIN objects)
        xrefstreamObjectNumber == maxObjNum + 1
        xref == <<1, offset - 1, 0>>
        xrefs == LinkFree(Put(LoopXrefs(objects, order, start),
                              xrefstreamObjectNumber, xref),
                          FreeList(objects), 1)
        size == TrailerSize(maxObjNum + 1)
        xrefstream == IndirectObject(xrefstreamObjectNumber, 0,
                          XRefStream(size, file.prev, Cardinality(DOMAIN xrefs)))
        added == AddIndirect(Put(objects, xrefstreamObjectNumber, XrefSlot(xref)),
                             xrefstream)
        rev == Revision(offset - 1, xrefs, size, file.prev)
    IN  CASE fail \in {"stat", "open", "separator"} ->
               [err |-> TRUE, file |-> file, bodies |-> {}, rev |-> rev, disk |-> d]
          [] fail = "body" ->
               [err |-> TRUE, file |-> file, bodies |-> bodies, rev |-> rev,
                disk |-> [d EXCEPT !.len = WrittenAt(objects, order, Len(order), d.len),
                                   !.bodies = d.bodies \cup bodies]]
          [] fail = "index" \/ (fail \in {"none", "footer"} /\ added.err) ->
               [err |-> TRUE, file |-> [file EXCEPT !.objects = added.objects],
                bodies |-> bodies, rev |-> rev,
                disk |-> [d EXCEPT !.len = end, !.bodies = d.bodies \cup bodies]]
          [] fail = "footer" /\ ~added.err ->
               [err |-> FALSE, file |-> [file EXCEPT !.objects = added.objects],
                bodies |-> bodies, rev |-> rev,
                disk |-> [d EXCEPT !.len = end + EncodedLen(xrefstream),
                                   !.bodies = d.bodies \cup bodies
                                                \cup {Body(end, xrefstream)}]]
          [] fail = "none" /\ ~added.err ->
               [err |-> FALSE, file |-> [file EXCEPT !.objects = added.objects],
                bodies |-> bodies, rev |-> rev,
                disk |-> [d EXCEPT !.len = end + EncodedLen(xrefstream)
                                               + FooterLen(offset - 1),
                                   !.bodies = d.bodies \cup bodies
                                                \cup {Body(end, xrefstream)},
                                   !.revs = Append(d.revs, rev)]]

\* saveUsingXrefTable with the map visited in order, every I/O step
\* succeeding: the index is written as a table, the trailer after it; table
\* is the number of bytes that precede the xref keyword.
SaveUsingXrefTable(file, d, order) ==
    LET objects == file.objects
        start == d.len + 1 + LineBreakLen
        offset == OffsetAt(objects, order, Len(order) + 1, start)
        end == WrittenAt(objects, order, Len(order) + 1, d.len)
        bodies == {Body(WrittenAt(objects, order, k, d.len), objects[order[k]].io)
                      : k \in 1..Len(order)}
        xrefs == LinkFree(LoopXrefs(objects, order, start), TableFreeList(objects), 1)
        maxObjNum == SetMax(DOMAIN objects)
        rev == Revision(offset - 1, xrefs, TrailerSize(maxObjNum), file.prev)
    IN  [err |-> FALSE, file |-> file, bodies |-> bodies, rev |-> rev, table |-> end,
         disk |-> [d EXCEPT !.bodies = d.bodies \cup bodies,
                            !.revs = Append(d.revs, rev)]]

\* Save, the map visited in one of orders and failing at one of fails.
SaveWith(orders, fails) ==
    /\ f.open
    /\ \E order \in orders, fail \in fails :
          LET s == SaveUsingXrefStream(f, disk, order, fail)
          IN  /\ fail = "body" => order # <<>>
              /\ f' = s.file
              /\ disk' = s.disk
              /\ last' = Call("Save", 0, 0, Plain(0), IF s.err THEN "error" ELSE "ok",
                              0, 0, Plain(0), IF fail = "none" THEN "" ELSE fail)
    /\ log' = IF log.phase = "adding" /\ log.adds # <<>>
                THEN Log("saved", log.adds) ELSE LogOff
    /\ saves' = saves + 1
    /\ UNCHANGED <<ops, res>>

\* Save on a file system that does not fail.
SaveCall(orders) == SaveWith(orders, {"none"})

Save == saves < MaxSaves /\ SaveCall(Orders(PendingNumbers(f.objects)))

\* Save on a file system whose steps can fail.
SaveIO == saves < MaxSaves /\ SaveWith(Orders(PendingNumbers(f.objects)), Fails)

\* ---------------------------------------------------------------- the behaviours
Init ==
    /\ disk = ExistingFile
    /\ f = NoFile
    /\ last = Call("none", 0, 0, Plain(0), "ok", 0, 0, Plain(0), "")
    /\ ops = 0
    /\ saves = 0
    /\ log = LogOff
    /\ res = Resources(FALSE, FALSE)

Next ==
    \/ Create
    \/ Open
    \/ \E n \in Nums, g \in Gens, obj \in Values : AddIndirectObject(n, g, obj)
    \/ \E obj \in Values : AddObject(obj)
    \/ \E n \in Nums : Free(n)
    \/ \E n \in Nums : GetObject(n)
    \/ Save

Spec == Init /\ [][Next]_vars

\* ---------------------------------------------------------------- I/O errors
\* The calls that write, on a file system whose steps can fail.
NextIO ==
    \/ Create
    \/ Open
    \/ \E n \in Nums, g \in Gens : AddIndirectObject(n, g, Plain(1))
    \/ SaveIO

SpecIO == Init /\ [][NextIO]_vars

\* ---------------------------------------------------------------- reading files
\* Open and Get on the files found on disk: files without an index, with or
\* without the header, and files whose objects are held in object streams.
InitRead ==
    /\ disk \in HeaderFiles \cup HealFiles
    /\ f = NoFile
    /\ last = Call("none", 0, 0, Plain(0), "ok", 0, 0, Plain(0), "")
    /\ ops = 0
    /\ saves = 0
    /\ log = LogOff
    /\ res = Resources(FALSE, FALSE)

OpenFile == ~f.open /\ OpenWith(Acquires, Releases)

\* Close, the step release failing; the caller drops the File.
CloseCall(release) ==
    LET c == CloseFile(f.created, res, release)
    IN  /\ f.open
        /\ f' = NoFile
        /\ last' = Call("Close", 0, 0, Plain(0), IF c.err THEN "error" ELSE "ok",
                        0, 0, Plain(0), IF release = "none" THEN "" ELSE release)
        /\ log' = LogOff
        /\ res' = c.res
        /\ UNCHANGED <<disk, ops, saves>>

Close == \E release \in Releases : CloseCall(release)

NextRead == OpenFile \/ Close \/ \E n \in Nums : GetObject(n)

SpecRead == InitRead /\ [][NextRead]_vars

\* ---------------------------------------------------------------- examples/h7
\* The example program: createMinimalFile, stage1 ... stage4, each adding
\* and freeing its objects and ending in Save; the next opens the file the
\* one before saved.  saves is the stage.  The calls of a stage are taken
\* in any order, and Save writes the bodies in the order of their numbers.
H7Adds(stage) ==
    CASE stage = 0 -> {<<n, 0>> : n \in 1..6}
      [] stage = 1 -> {<<4, 0>>} \cup {<<n, 0>> : n \in 7..11}
      [] stage = 2 -> {<<10, 0>>}
      [] stage = 3 -> {<<7, 0>>}
      [] stage = 4 -> {<<8, 1>>, <<9, 1>>, <<12, 0>>, <<7, 0>>}
      [] OTHER -> {}

H7Frees(stage) == IF stage = 3 THEN {8, 9} ELSE {}

\* the object a stage reads before it rewrites it
H7Reads(stage) ==
    CASE stage = 1 -> {4} [] stage = 2 -> {10} [] stage = 4 -> {7} [] OTHER -> {}

H7Object(n) == IF n = 5 THEN StreamInt(0) ELSE Plain(n)

H7Added(n) == n \in DOMAIN f.objects /\ f.objects[n].tag = "pending"
H7Freed(n) == n \in DOMAIN f.objects /\ f.objects[n].tag = "freed"
H7Ready == H7Reads(saves) = {} \/ last.op # "Open"

H7Create == Create

H7Open == last.op = "Save" /\ saves < 5 /\ OpenCall

H7Get == last.op = "Open" /\ \E n \in H7Reads(saves) : GetObject(n)

H7Add ==
    /\ H7Ready
    /\ \E a \in H7Adds(saves) : ~H7Added(a[1]) /\ AddCall(a[1], a[2], H7Object(a[1]))

H7Free == H7Ready /\ \E n \in H7Frees(saves) : ~H7Freed(n) /\ FreeCall(n)

H7Save ==
    /\ f.open /\ last.op \notin {"Save", "Create", "Open"}
    /\ \A a \in H7Adds(saves) : H7Added(a[1])
    /\ \A n \in H7Frees(saves) : H7Freed(n)
    /\ SaveCall({SortedSeq(PendingNumbers(f.objects))})

H7Next == H7Create \/ H7Open \/ H7Get \/ H7Add \/ H7Free \/ H7Save

SpecH7 == Init /\ [][H7Next]_vars

\* ---------------------------------------------------------------- package file (file/file.go)
\* The older package: a File holds the new objects as a slice in the order
\* they were added; Save writes them all and then an xref table for object
\* 0 and the objects written.  A created File has no xrefs of existing
\* objects.
MaxFileNum == 6    \* callers name object numbers 0..MaxFileNum
MaxFileAdds == 4   \* Add calls in one behaviour

file_File(objects) ==
    [open |-> TRUE, created |-> TRUE, objects |-> objects, xrefs |-> <<>>,
     size |-> 0, prev |-> 0, mmlen |-> 0]

\* the offset of the k-th object of the slice, "offset" of Save
RECURSIVE file_OffsetAt(_, _, _)
file_OffsetAt(objects, k, start) ==
    IF k = 1 THEN start
    ELSE file_OffsetAt(objects, k - 1, start)
           + EncodedLen(objects[k - 1]) + LineBreakLen

\* xrefs of Save after the loop over the first k of f.objects
RECURSIVE file_LoopXrefs(_, _, _)
file_LoopXrefs(objects, k, start) ==
    IF k = 0 THEN [n \in {0} |-> <<0, 0, FreeHeadGen>>]
    ELSE Put(file_LoopXrefs(objects, k - 1, start), objects[k].num,
             <<1, file_OffsetAt(objects, k, start) - 1, objects[k].gen>>)

\* objects[low:high] of a slice whose capacity is its length: the elements
\* at the indexes low .. high-1, counted from 0
Slice(objects, low, high) == SubSeq(objects, low + 1, high)

\* "group into consecutive sets" of Save: the loop over the sorted object
\* numbers at index i (counted from 0, index 0 is skipped), groupStart as
\* the loop has it; the remaining group is added last.  A slice whose upper
\* bound is beyond the capacity panics.
RECURSIVE file_GroupFrom(_, _, _)
file_GroupFrom(objects, groupStart, i) ==
    IF i >= Len(objects)
      THEN [panic |-> FALSE, groups |-> << Slice(objects, groupStart, Len(objects)) >>]
    ELSE IF objects[i + 1] # objects[i] + 1
      THEN LET high == IF groupStart + i - 1 = groupStart THEN groupStart + 1
                       ELSE groupStart + i - 1
               rest == file_GroupFrom(objects, i, i + 1)
           IN  IF high > Len(objects) THEN [panic |-> TRUE, groups |-> <<>>]
               ELSE [panic |-> rest.panic,
                     groups |-> IF rest.panic THEN <<>>
                                ELSE << Slice(objects, groupStart, high) >> \o rest.groups]
    ELSE file_GroupFrom(objects, groupStart, i + 1)

file_Group(objects) == file_GroupFrom(objects, 0, 1)

\* Save of the older package on the file d: the bodies it writes, the
\* groups of the table (panic: the grouping aborted the caller, after the
\* bodies were written) and the file it leaves.
file_SaveOf(file, d) ==
    LET objects == file.objects
        start == d.len + 1 + LineBreakLen
        offset == file_OffsetAt(objects, Len(objects) + 1, start)
        bodies == {Body(file_OffsetAt(objects, k, start) - 1, objects[k])
                      : k \in 1..Len(objects)}
        xrefs == file_LoopXrefs(objects, Len(objects), start)
        sorted == SortedSeq(DOMAIN xrefs)
        grouped == file_Group(sorted)
        maxObjNum == SetMax({sorted[Len(sorted)]} \cup DOMAIN file.xrefs)
        rev == [at |-> offset - 1, xrefs |-> xrefs, size |-> maxObjNum + 1,
                prev |-> file.prev, index |-> Index(grouped.groups)]
    IN  [panic |-> grouped.panic, groups |-> grouped.groups,
         disk |-> IF grouped.panic
                    THEN [d EXCEPT !.len = offset - 1, !.bodies = d.bodies \cup bodies]
                    ELSE [d EXCEPT !.len = offset - 1 + FooterLen(offset - 1),
                                   !.bodies = d.bodies \cup bodies,
                                   !.revs = Append(d.revs, rev)]]

file_Create ==
    /\ ~f.open
    /\ f' = file_File(<<>>)
    /\ disk' = HeaderOnly
    /\ last' = Call("Create", 0, 0, Plain(0), "ok", 0, 0, Plain(0), "")
    /\ res' = Resources(FALSE, FALSE)
    /\ UNCHANGED <<ops, saves, log>>

file_Add(n) ==
    /\ f.open
    /\ ops < MaxFileAdds
    /\ f' = [f EXCEPT !.objects = Append(f.objects, IndirectObject(n, 0, Plain(1)))]
    /\ last' = Call("Add", n, 0, Plain(1), "ok", n, 0, Plain(0), "")
    /\ ops' = ops + 1
    /\ UNCHANGED <<disk, saves, log, res>>

\* Save; a caller that was aborted holds no File.
file_Save ==
    /\ f.open
    /\ saves < MaxSaves
    /\ LET s == file_SaveOf(f, disk)
       IN  /\ f' = IF s.panic THEN NoFile ELSE f
           /\ disk' = s.disk
           /\ last' = Call("Save", 0, 0, Plain(0), IF s.panic THEN "panic" ELSE "ok",
                           0, 0, Plain(0), "")
    /\ saves' = saves + 1
    /\ UNCHANGED <<ops, log, res>>

file_Next ==
    \/ file_Create
    \/ \E n \in 0..MaxFileNum : file_Add(n)
    \/ file_Save

SpecFile == Init /\ [][file_Next]_vars

\* ================================================================ the claims
\* What Get returns for object number n of a File, on the bytes it maps.
GetOf(file, d, n) ==
    Get(file.objects, {b \in d.bodies : b.at < file.mmlen}, n, Fuel(file.objects))

\* What a Get returns, without the map it leaves.
Outcome(r) == <<r.st, r.obj, r.diag>>

\* The minimum generation the claims name for a slot.
ClaimedMinimum(slot) ==
    IF slot.tag = "xref"
      THEN (IF slot.x[1] = 2 THEN 0 ELSE slot.x[3])
      ELSE IF slot.tag = "pending" THEN slot.io.gen ELSE slot.free

\* C2: Add of an IndirectObject (n, g) succeeds iff n has no slot or g is at
\* least the minimum of the slot (the stored generation of an unmodified
\* normal or free entry, 0 for a compressed entry, the generation of a
\* pending object, the next generation of a freed one); on success the slot
\* of n is Pending with exactly that object and the reference is (n, g).
C2_AddAcceptsFromMinimum ==
    [][last'.op = "Add" =>
        LET n == last'.n
            g == last'.g
            fits == n \notin DOMAIN f.objects \/ g >= ClaimedMinimum(f.objects[n])
        IN  /\ (last'.st = "ok") <=> fits
            /\ fits => /\ f'.objects[n] = PendingSlot(IndirectObject(n, g, last'.obj))
                       /\ last'.rn = n /\ last'.rg = g]_vars

\* An Add at generation 1 is accepted as the second call of a behaviour.
C2_Witness ==
    /\ last.op = "Add" /\ last.st = "ok" /\ last.g = 1
    /\ ops = 2
    /\ f.objects[last.n] = PendingSlot(IndirectObject(last.n, 1, last.obj))

\* C3: Add with a generation below the minimum of the slot returns an error
\* and the reference (n, minimum), and leaves every slot and the size as
\* they were, so that Get on n returns what it returned before.
C3_RejectedAddChangesNothing ==
    [][(/\ last'.op = "Add"
        /\ last'.n \in DOMAIN f.objects
        /\ last'.g < ClaimedMinimum(f.objects[last'.n]))
       => /\ last'.st = "error"
          /\ last'.rn = last'.n
          /\ last'.rg = ClaimedMinimum(f.objects[last'.n])
          /\ f'.objects = f.objects
          /\ f'.size = f.size
          /\ Outcome(GetOf(f', disk', last'.n)) = Outcome(GetOf(f, disk, last'.n))]_vars

\* An Add at generation 0 is rejected over a new object of generation 1.
C3_Witness ==
    /\ last.op = "Add" /\ last.st = "error" /\ last.g = 0 /\ last.rg = 1
    /\ last.n \in DOMAIN f.objects
    /\ f.objects[last.n].tag = "pending"

\* C5: Free(n) turns an unmodified normal entry of generation g into
\* Freed(g+1), a compressed entry into Freed(1), a pending object of
\* generation g into Freed(g+1), changes nothing when n is absent, freed or
\* a free entry, and changes no other slot; freeing n once more changes
\* nothing.
C5_FreeSetsNextGeneration ==
    [][last'.op = "Free" =>
        LET n == last'.n
            old == f.objects
            new == f'.objects
        IN  /\ DOMAIN new = DOMAIN old
            /\ \A k \in DOMAIN old : k # n => new[k] = old[k]
            /\ f'.size = f.size
            /\ n \in DOMAIN old =>
                 new[n] = CASE old[n].tag = "xref" /\ old[n].x[1] = 1
                                 -> FreedSlot(old[n].x[3] + 1)
                            [] old[n].tag = "xref" /\ old[n].x[1] = 2 -> FreedSlot(1)
                            [] old[n].tag = "pending" -> FreedSlot(old[n].io.gen + 1)
                            [] OTHER -> old[n]
            /\ FreeObject(new, n) = new
            /\ (last.op = "Free" /\ last.n = n) => f' = f]_vars

\* Free has left a number freed at generation 1, all others as loaded.
C5_Witness ==
    /\ last.op = "Free" /\ ops = 2
    /\ last.n \in DOMAIN f.objects
    /\ f.objects[last.n].tag = "freed"
    /\ f.objects[last.n].free = 1
    /\ \A k \in DOMAIN f.objects : k # last.n => f.objects[k].tag = "xref"

\* A slot that holds an object: a normal or compressed entry, a new object.
HoldsObject(slot) ==
    \/ slot.tag = "pending"
    \/ slot.tag = "xref" /\ slot.x[1] \in {1, 2}

\* The call recorded in c added an object under number n.
AddedAs(c, n) == c.op \in {"Add", "AddOther"} /\ c.st = "ok" /\ c.rn = n

\* C6: once Free(n) was called on a number that holds an object, Get on n
\* returns Null for as long as n is not added again: in the same session,
\* across Save, and in the File that reopening the saved file gives.
C6_FreedStaysNull ==
    [][/\ (/\ last'.op = "Free"
           /\ last'.n \in DOMAIN f.objects
           /\ HoldsObject(f.objects[last'.n]))
          => /\ f'.objects[last'.n].tag = "freed"
             /\ GetOf(f', disk', last'.n).st = "null"
       /\ \A n \in DOMAIN f.objects :
            (f.objects[n].tag = "freed" /\ f'.open /\ ~AddedAs(last', n))
              => /\ n \in DOMAIN f'.objects
                 /\ f'.objects[n].tag = "freed" \/ last'.op = "Open"
                 /\ GetOf(f', disk', n).st = "null"]_vars

\* The existing file was reopened after object 2 was freed and saved.
C6_Witness ==
    /\ last.op = "Open" /\ last.st = "ok" /\ ~f.created
    /\ 2 \in DOMAIN f.objects
    /\ f.objects[2].tag = "xref" /\ f.objects[2].x[1] = 0
    /\ GetOf(f, disk, 2).st = "null"

\* C7: Get never fails: every call returns an Object, and one that found a
\* resolution problem returns Null with a diagnostic.
C7_GetNeverFails ==
    last.op = "Get" =>
        /\ last.st \in {"ok", "null"}
        /\ last.st = "null" => last.diag # ""

\* The revisions of the file on disk that File file wrote: those appended
\* after the bytes it mapped when it was opened.
WrittenBy(file, d) == {i \in 1..Len(d.revs) : d.revs[i].at >= file.mmlen}

\* C8: after two successful Save calls on a File, the Prev of the second
\* revision is the startxref offset the first Save wrote.
C8_SecondPrevIsFirstStartxref ==
    (f.open /\ last.op = "Save" /\ last.st = "ok") =>
        \A i \in WrittenBy(f, disk) :
            (i - 1) \in WrittenBy(f, disk) => disk.revs[i].prev = disk.revs[i - 1].at

\* C10: after a successful Save, Get and Add on the File give what they
\* give on the File that reopening the saved file gives: the same Get
\* result, the same acceptance with the same reference, the same number for
\* an object added without a reference.
C10_SavedActsAsOpened ==
    (f.open /\ last.op = "Save" /\ last.st = "ok") =>
        LET again == Opened(disk) IN
          /\ \A n \in Nums :
                /\ GetOf(f, disk, n).st = GetOf(again, disk, n).st
                /\ GetOf(f, disk, n).obj = GetOf(again, disk, n).obj
          /\ \A n \in Nums, g \in Gens :
                LET here == AddIndirect(f.objects, IndirectObject(n, g, Plain(1)))
                    there == AddIndirect(again.objects, IndirectObject(n, g, Plain(1)))
                IN  here.err = there.err /\ here.rg = there.rg
          /\ f.size = again.size

\* Get returned obj for an object that was added as added: the same value,
\* a Length that was a reference being the Integer it resolves to.
ReturnedAs(r, added) ==
    /\ r.st = "ok"
    /\ \/ r.obj = added
       \/ /\ added.kind = "Stream" /\ added.lkind = "Ref"
          /\ r.obj = [added EXCEPT !.lkind = "Int", !.lval = r.obj.lval,
                                   !.pay = r.obj.lval]

\* C1: after a sequence of successful Add calls, Save and reopening, Get on
\* every reference an Add returned gives the value that was added.
C1_RoundTrip ==
    log.phase = "reopened" =>
        \A i \in 1..Len(log.adds) :
            ReturnedAs(GetOf(f, disk, log.adds[i].rn), log.adds[i].obj)

\* The bodies the last Save wrote before its index.
LastBodies(d) ==
    {b \in d.bodies :
        /\ b.at < d.revs[Len(d.revs)].at
        /\ Len(d.revs) > 1 => b.at > d.revs[Len(d.revs) - 1].at}

\* C4: after a successful Add for object number n, Get on n returns the
\* value of that Add, whatever n held before; and Save writes exactly one
\* body for n, that of the most recent Add.
C4_NewestWriteWins ==
    /\ AddedAs(last, last.rn) => ReturnedAs(GetOf(f, disk, last.rn), last.obj)
    /\ (f.open /\ last.op = "Save" /\ last.st = "ok") =>
          \A n \in PendingNumbers(f.objects) \ {SetMax(DOMAIN f.objects)} :
              LET written == {b \in LastBodies(disk) : b.io.num = n}
              IN  Cardinality(written) = 1 /\ \A b \in written : b.io = f.objects[n].io

\* C9: in the example program the Size written in the trailer of the last
\* revision is 13.
C9_FinalSizeIs13 ==
    (saves = 5 /\ last.op = "Save" /\ last.st = "ok") =>
        disk.revs[Len(disk.revs)].size = 13

\* The entry is that of the head of the free list: free, generation 65535.
IsFreeHead(xrefs) ==
    0 \in DOMAIN xrefs /\ xrefs[0][1] = 0 /\ xrefs[0][3] = FreeHeadGen

\* The indexes the table form writes for the File, one for each order the
\* map can be visited in.
TableIndexes(file, d) ==
    {SaveUsingXrefTable(file, d, order).rev.xrefs :
        order \in Orders(PendingNumbers(file.objects))}

\* C11: object 0 is never a real object: its slot is never Pending, and
\* every index Save writes (stream form, and the table form on the same
\* File) holds the entry of object 0 as a free entry of generation 65535.
C11_ObjectZeroIsFreeHead ==
    /\ f.open /\ 0 \in DOMAIN f.objects => f.objects[0].tag # "pending"
    /\ \A i \in 1..Len(disk.revs) : IsFreeHead(disk.revs[i].xrefs)
    /\ f.open => \A xrefs \in TableIndexes(f, disk) : IsFreeHead(xrefs)

\* The index table of the object stream os lists object number n; the
\* relative offset it lists for n; the slot index slot designates n in it.
Listed(os, n) == \E i \in 1..os.N : os.numerals[2 * i - 1] = n
OffsetListed(os, n) ==
    os.numerals[2 * (CHOOSE i \in 1..os.N :
                        /\ os.numerals[2 * i - 1] = n
                        /\ \A j \in 1..os.N : os.numerals[2 * j - 1] = n => i <= j)]
Designates(os, slot, n) == slot < os.N /\ os.numerals[2 * slot + 1] = n

\* C12: Get on an object number n that has a compressed entry, whose
\* container lists n in its index table while the slot index recorded in
\* the entry does not designate n there, returns the object stored for n:
\* the one decoded at First plus the relative offset listed for n.
C12_SelfHeal ==
    (/\ last.op = "Get" /\ f.open
     /\ last.n \in DOMAIN f.objects
     /\ f.objects[last.n].tag = "xref" /\ f.objects[last.n].x[1] = 2)
    => LET x == f.objects[last.n].x
           c == GetOf(f, disk, x[2])
           os == ObjStm(c.obj.os)
       IN  (/\ c.st = "ok" /\ c.obj.os # 0
            /\ Listed(os, last.n)
            /\ ~Designates(os, x[3], last.n))
           => /\ last.st = "ok"
              /\ last.robj = os.at[os.First + OffsetListed(os, last.n)]

\* C13: Save returns an error whenever one of its I/O steps fails (the stat,
\* the open for append, a write of a separator, a body, the index and
\* trailer, the startxref footer), and returns nil only when exactly one
\* complete new revision was appended to the file.
C13_SaveReportsIOErrors ==
    [][last'.op = "Save" =>
        /\ last'.diag # "" => last'.st = "error"
        /\ last'.st = "ok" =>
              /\ Len(disk'.revs) = Len(disk.revs) + 1
              /\ SubSeq(disk'.revs, 1, Len(disk.revs)) = disk.revs
              /\ disk'.revs[Len(disk'.revs)].at > disk.len
              /\ disk'.len > disk'.revs[Len(disk'.revs)].at]_vars

\* C14: Open on a file whose first 7 bytes are not "%PDF-1.", a file of
\* fewer than 7 bytes included, returns an error and no File; it does not
\* abort the caller.
C14_OpenRejectsBadHeader ==
    (last.op = "Open" /\ (disk.len < MagicLen \/ disk.head # MagicLen))
        => last.st = "error" /\ ~f.open

\* The index in force once xrefs was written for a File: the entries
\* written, and for every other number the entry the File was loaded with.
Overlay(xrefs, objects) ==
    LET loaded == {n \in DOMAIN objects : objects[n].tag = "xref"}
    IN  [n \in DOMAIN xrefs \cup loaded |->
            IF n \in DOMAIN xrefs THEN xrefs[n] ELSE objects[n].x]

\* The free object numbers of the store.
StoreFree(objects) == (FreeEntryNumbers(objects) \cup FreedNumbers(objects)) \ {0}

\* The object numbers met by following the next links from n to 0; -1
\* stands for a link that leads to no free entry.
RECURSIVE Walk(_, _, _)
Walk(xrefs, n, fuel) ==
    IF n = 0 THEN <<>>
    ELSE IF fuel = 0 \/ n \notin DOMAIN xrefs \/ xrefs[n][1] # 0 THEN <<-1>>
    ELSE <<n>> \o Walk(xrefs, xrefs[n][2], fuel - 1)

Linked(xrefs, free) ==
    /\ IsFreeHead(xrefs)
    /\ Walk(xrefs, xrefs[0][2], Cardinality(DOMAIN xrefs)) = SortedSeq(free)

\* C15: in the index Save writes (stream form, and the table form on the
\* same File), following the next links from the entry of object 0 visits
\* every free object number of the store once, in ascending order, and ends
\* at 0; the entry of object 0 has generation 65535.
C15_FreeListLinked ==
    /\ (f.open /\ last.op = "Save" /\ last.st = "ok") =>
          Linked(Overlay(disk.revs[Len(disk.revs)].xrefs, f.objects),
                 StoreFree(f.objects))
    /\ f.open =>
          \A xrefs \in TableIndexes(f, disk) :
              Linked(Overlay(xrefs, f.objects), StoreFree(f.objects))

\* C16: generations never go backwards: for an object number n that is free
\* with next generation g (freed by Free, or loaded as a free entry), the
\* entry a Save writes for n carries generation g, and in the File that
\* reopening the saved file gives, Add of n with a generation below g is
\* rejected.
C16_GenerationsNeverGoBack ==
    (f.open /\ last.op = "Save" /\ last.st = "ok") =>
        \A n \in StoreFree(f.objects) :
            LET g == MinGenerationNumber(f.objects[n])
                written == disk.revs[Len(disk.revs)].xrefs
                again == Opened(disk)
            IN  /\ n \in DOMAIN written => written[n][3] = g
                /\ \A gen \in Gens :
                      gen < g =>
                          AddIndirect(again.objects, IndirectObject(n, gen, Plain(1))).err

\* C17: Add of an object that is not an IndirectObject returns a reference
\* whose object number held no slot before the call; the new slot is
\* Pending at generation 0 with that object, no other slot changes and the
\* size grows by one.
C17_AutoAllocationIsFresh ==
    [][last'.op = "AddOther" =>
        /\ last'.rn \notin DOMAIN f.objects
        /\ last'.rg = 0
        /\ f'.objects[last'.rn] = PendingSlot(IndirectObject(last'.rn, 0, last'.obj))
        /\ \A k \in DOMAIN f.objects : k # last'.rn => f'.objects[k] = f.objects[k]
        /\ f'.size = f.size + 1]_vars

\* C18: whenever Save is called, the size of the File is 1 plus the largest
\* object number of the map (no slot ever leaves the map).
C18_SizeIsMaxPlusOne ==
    [][(last'.op = "Save" /\ f.objects # <<>>) =>
            f.size = 1 + SetMax(DOMAIN f.objects)]_vars

\* The revision the table form writes for the File, the map visited in the
\* order of the object numbers (the order moves the offsets of the bodies
\* and nothing else).
TableRevision(file, d) ==
    SaveUsingXrefTable(file, d, SortedSeq(PendingNumbers(file.objects))).rev

\* The object numbers of the run (first, count).
Run(r) == r[1]..(r[1] + r[2] - 1)

\* The runs of the index of a revision partition the object numbers its
\* entries are written for into maximal runs of consecutive numbers.
Grouped(rev) ==
    LET index == rev.index
        numbers == DOMAIN rev.xrefs
    IN  /\ \A k \in 1..Len(index) : index[k][2] >= 1 /\ Run(index[k]) \subseteq numbers
        /\ \A n \in numbers : Cardinality({k \in 1..Len(index) : n \in Run(index[k])}) = 1
        /\ \A k \in 1..(Len(index) - 1) :
              /\ index[k][1] < index[k + 1][1]
              /\ index[k][1] + index[k][2] < index[k + 1][1]
        /\ \A n \in numbers :
              (n - 1 \notin numbers /\ n + 1 \notin numbers) =>
                  \E k \in 1..Len(index) : index[k] = <<n, 1>>

\* C19: the runs (first, count) Save writes for an index (stream form, and
\* the table form on the same File) cover the sorted set of object numbers
\* of the index exactly once, with no gap and no overlap; every run is a
\* maximal sequence of consecutive numbers, the starts are strictly
\* increasing, and a single number is written as a run of length 1.
C19_RunsPartitionTheIndex ==
    /\ (f.open /\ last.op = "Save" /\ last.st = "ok") =>
          Grouped(disk.revs[Len(disk.revs)])
    /\ f.open => Grouped(TableRevision(f, disk))

\* Save has written an index of several runs, one of length 1 and one
\* longer.
C19_Witness ==
    /\ f.open /\ last.op = "Save" /\ last.st = "ok"
    /\ LET index == disk.revs[Len(disk.revs)].index
       IN  /\ Len(index) >= 2
           /\ \E k \in 1..Len(index) : index[k][2] = 1
           /\ \E k \in 1..Len(index) : index[k][2] >= 2

\* C20: for the same File the table form and the stream form write entries
\* for the same object numbers, the entry of the cross reference stream
\* apart, each with the same type and generation in both, and with the same
\* next link where it is a free entry, that of object 0 included.
C20_EncodingsAgree ==
    f.open =>
        LET order == SortedSeq(PendingNumbers(f.objects))
            stream == SaveUsingXrefStream(f, disk, order, "none").rev.xrefs
            table == SaveUsingXrefTable(f, disk, order).rev.xrefs
            own == SetMax(DOMAIN f.objects) + 1
        IN  /\ DOMAIN stream \ {own} = DOMAIN table
            /\ \A n \in DOMAIN table :
                  /\ stream[n][1] = table[n][1]
                  /\ stream[n][3] = table[n][3]
                  /\ table[n][1] = 0 => stream[n][2] = table[n][2]

\* C21: Save leaves the map of the File as it was, its key set and every
\* slot, and the size too: no slot is cleared and none is added.
C21_SaveLeavesTheStore ==
    [][last'.op = "Save" =>
            f'.objects = f.objects /\ f'.size = f.size]_vars

\* C22: Get leaves every slot of the File as it was, the dictionary of a
\* new Stream whose Length is an ObjectReference included: the Integer the
\* reference resolves to is in the value returned, not in the slot.
C22_GetLeavesTheStore ==
    [][(last'.op = "Get" /\ last'.st \in {"ok", "null"}) =>
            f'.objects = f.objects /\ f'.size = f.size]_vars

\* C23: Get ends on every File and reference, also when the Length
\* references of Streams or the containers of compressed entries form a
\* cycle.
C23_GetTerminates ==
    last.op = "Get" => last.st # "overflow"

\* The objects a Save wrote after the len bytes the file had, with the
\* number of bytes that precede each.
Appended(bodies, len) == {b \in bodies : b.at >= len}

\* C24: every offset a successful Save records in the index for an object
\* it wrote equals the number of bytes of the output file that precede the
\* first byte of that object, and the value after startxref equals the
\* number of bytes that precede the cross reference section, in the stream
\* form and in the table form, on a first Save and on a later one.
C24_OffsetsAreBytesPreceding ==
    [][(last'.op = "Save" /\ last'.st = "ok") =>
        LET rev == disk'.revs[Len(disk'.revs)]
            new == Appended(disk'.bodies, disk.len)
            table == SaveUsingXrefTable(f, disk, SortedSeq(PendingNumbers(f.objects)))
        IN  /\ \A b \in new :
                  /\ b.io.num \in DOMAIN rev.xrefs
                  /\ rev.xrefs[b.io.num] = <<1, b.at, b.io.gen>>
            /\ \E b \in new : b.at = rev.at /\ b.io.obj.xsize = rev.size
            /\ \A b \in table.bodies :
                  table.rev.xrefs[b.io.num] = <<1, b.at, b.io.gen>>
            /\ table.rev.at = table.table]_vars

\* The object number of the cross reference stream of the revision rev:
\* that of the object written at the offset startxref names.
OwnNumber(bodies, rev) == (CHOOSE b \in bodies : b.at = rev.at).io.num

\* C25: the trailer a Save writes has Size equal to 1 plus the highest
\* object number among the slots of the store and the entries of the index
\* written, in the stream form the entry of the cross reference stream
\* counted, whose number no slot held before the Save; its Prev is the prev
\* offset of the store, absent (0) when that is zero.  The dictionary of the
\* cross reference stream is that trailer.  The table form likewise.
C25_TrailerSizeAndPrev ==
    [][(last'.op = "Save" /\ last'.st = "ok") =>
        LET rev == disk'.revs[Len(disk'.revs)]
            own == OwnNumber(disk'.bodies, rev)
            stream == (CHOOSE b \in disk'.bodies : b.at = rev.at).io.obj
            table == SaveUsingXrefTable(f, disk, SortedSeq(PendingNumbers(f.objects))).rev
        IN  /\ own \in DOMAIN rev.xrefs /\ own \notin DOMAIN f.objects
            /\ rev.size = 1 + SetMax(DOMAIN f.objects \cup DOMAIN rev.xrefs)
            /\ rev.prev = f.prev
            /\ stream.xsize = rev.size /\ stream.xprev = rev.prev
            /\ table.size = 1 + SetMax(DOMAIN f.objects \cup DOMAIN table.xrefs)
            /\ table.prev = f.prev]_vars

\* A Save of an opened File, whose prev offset is not zero, after an Add of
\* an object number above those of the file.
C25_Witness ==
    /\ last.op = "Save" /\ last.st = "ok"
    /\ LET rev == disk.revs[Len(disk.revs)]
       IN  rev.prev # 0 /\ Len(disk.revs) = 2 /\ rev.size > disk.revs[1].size + 1

\* C26: when Open returns an error after the file handle was opened (the
\* mapping fails, the header is not that of a PDF file, the index does not
\* load), neither the file handle nor a mapping is held any more; and after
\* Close on an opened File the file handle is closed, also when unmapping
\* reported an error.
C26_ResourcesAreReleased ==
    /\ (last.op = "Open" /\ last.st = "error") => ~res.handle /\ ~res.mapped
    /\ last.op = "Close" => ~res.handle

\* The object numbers of the groups, one after the other.
RECURSIVE Flat(_)
Flat(groups) == IF groups = <<>> THEN <<>> ELSE Head(groups) \o Flat(Tail(groups))

\* C27: Save of the older package groups the sorted object numbers of the
\* index into consecutive sets: the groups written as "first count"
\* subsections cover each object number exactly once, each group holds
\* only consecutive numbers, and a group of one number is written as one
\* entry.
C27_OlderGroupsPartition ==
    (last.op = "Save" /\ last.st = "ok") =>
        LET rev == disk.revs[Len(disk.revs)]
            groups == file_Group(SortedSeq(DOMAIN rev.xrefs)).groups
        IN  /\ Flat(groups) = SortedSeq(DOMAIN rev.xrefs)
            /\ \A k \in 1..Len(groups) :
                  \A j \in 2..Len(groups[k]) : groups[k][j] = groups[k][j - 1] + 1
            /\ rev.index = Index(groups)

====
